---------------------------- MODULE Spec2Model ----------------------------
(***************************************************************************)
(* A model of two view-layer adapters of GitLens:                          *)
(*   - ScmGroupedView (src/src/views/scmGroupedView.ts), the view-group    *)
(*     switcher, under the specification SpecView;                         *)
(*   - LaunchpadCommand (src/unnamed/part_001), the Launchpad quick-pick   *)
(*     wizard with its debounced search refresh, under Spec.               *)
(***************************************************************************)
EXTENDS Integers, Sequences, FiniteSets, TLC

(***************************************************************************)
(* JavaScript's undefined, for string-valued fields.                       *)
(***************************************************************************)
Undefined == "undefined"

\* ScmGroupedView
VARIABLES
    vpc,            \* "new": before the constructor ran, "live", "disposed"
    included,       \* ScmGroupedView.included
    lastSelectedScmGroupedView, \* Views.lastSelectedScmGroupedView
    view,           \* ScmGroupedView._view: 0 (undefined) or the id of a created view
    created,        \* the views getView has constructed: id -> [class, disposed]
    registered,     \* whether the gitlens.views.scm.grouped.* commands are registered
    contextKey,     \* the last value set for 'gitlens:views:scm:grouped:view'
    executed,       \* the last command run by the grouped refresh command
    ops,            \* what the last constructor/setView/dispose call did, in order
    lastCall,       \* the last call made: "constructor", "setView", "refresh", "dispose"
    requested,      \* the type the last setView call was given
    returned        \* the view the last setView call returned (0: undefined)

viewVars == <<vpc, included, lastSelectedScmGroupedView, view, created, registered,
              contextKey, executed, ops, lastCall, requested, returned>>

\* LaunchpadCommand
VARIABLES
    thisSource,     \* this.source.source (line 170)
    pc,             \* where the command stands: the step shown or the call awaited
    runs,           \* the LaunchpadCommand instances constructed so far
    storage,        \* container.storage: key -> value, for the keys that hold a value
    state,          \* the wizard's State: item, action, counter, confirm, initialGroup
    result,         \* context.result
    collapsed,      \* context.collapsed: a Map, group -> boolean
    connectedIntegrations,   \* context.connectedIntegrations: a Map, id -> boolean
    hasConnectedIntegrations, \* steps(), the local of line 237
    newlyConnected, \* steps(), the local of line 236
    lastConnect,    \* how this iteration's connect step ended: "none", "connected", "failed", "declined"
    integrations,   \* the integrations that are connected (the provider's own state)
    quickpick,      \* the QuickPick: value, placeholder, items
    items,          \* pickLaunchpadItemStep's `items` (line 564), whose objects the handlers mutate
    hasDisconnectedIntegrations, \* pickLaunchpadItemStep, line 379
    debouncer,      \* updateItemsDebouncer: timer, the task waiting for it, the task running
    tasks,          \* the refresh tasks the debouncer has invoked, by id
    answered,       \* whether the user answered a step since steps() last requested the items
    calls,          \* what the last step called on container.launchpad
    frozen          \* freezeStep disposables not yet disposed

wizVars == <<thisSource, pc, runs, storage, state, result, collapsed, connectedIntegrations,
             hasConnectedIntegrations, newlyConnected, lastConnect, integrations,
             quickpick, items, hasDisconnectedIntegrations, debouncer, tasks,
             answered, calls, frozen>>

\* GlHomeApp
VARIABLES
    hpc,            \* the element: "new", "connected" (to the document), "disconnected"
    homeState,      \* GlApp.state, as far as render reads it: present, previewEnabled
    rendered,       \* the elements the last render() has put into <main>, in order
    disposable,     \* GlHomeApp.disposable: "undefined", "subscribed", "disposed"
    accountShown    \* the calls of accountContentEl.show() so far

homeVars == <<hpc, homeState, rendered, disposable, accountShown>>

vars == <<viewVars, wizVars, homeVars>>

(* ======================================================================= *)
(*                       ScmGroupedView                                    *)
(* ======================================================================= *)

\* The views a run may construct.
MaxViews == 3
\* The length of the included list.
MaxIncluded == 2

GroupableTreeViewTypes ==
    {"branches", "commits", "contributors", "remotes", "repositories",
     "searchAndCompare", "stashes", "tags", "worktrees"}

NoView == 0

\* The `type` property each view class declares.
ViewTypeOfClass(class) ==
    CASE class = "BranchesView" -> "branches"
      [] class = "CommitsView" -> "commits"
      [] class = "ContributorsView" -> "contributors"
      [] class = "RemotesView" -> "remotes"
      [] class = "RepositoriesView" -> "repositories"
      [] class = "SearchAndCompareView" -> "searchAndCompare"
      [] class = "StashesView" -> "stashes"
      [] class = "TagsView" -> "tags"
      [] class = "WorktreesView" -> "worktrees"
      [] OTHER -> Undefined

\* A plausible slip in getView: two cases of the switch exchanged.
getView_Swapped(type) ==
    CASE type = "branches" -> "CommitsView"
      [] type = "commits" -> "BranchesView"
      [] type = "contributors" -> "ContributorsView"
      [] type = "remotes" -> "RemotesView"
      [] type = "repositories" -> "RepositoriesView"
      [] type = "searchAndCompare" -> "SearchAndCompareView"
      [] type = "stashes" -> "StashesView"
      [] type = "tags" -> "TagsView"
      [] type = "worktrees" -> "WorktreesView"
      [] OTHER -> Undefined

\* getView: the class constructed for a type; no case matches undefined.
getView(type) ==
    CASE type = "branches" -> "BranchesView"
      [] type = "commits" -> "CommitsView"
      [] type = "contributors" -> "ContributorsView"
      [] type = "remotes" -> "RemotesView"
      [] type = "repositories" -> "RepositoriesView"
      [] type = "searchAndCompare" -> "SearchAndCompareView"
      [] type = "stashes" -> "StashesView"
      [] type = "tags" -> "TagsView"
      [] type = "worktrees" -> "WorktreesView"
      [] OTHER -> Undefined

\* Array.prototype.includes
Includes(arr, x) == \E i \in 1..Len(arr) : arr[i] = x

\* arr[0]
First(arr) == IF Len(arr) = 0 THEN Undefined ELSE arr[1]

\* A slip in the fallback: the last included type instead of the first.
EffectiveType_Last(type) ==
    IF ~Includes(included, type)
    THEN (IF Len(included) = 0 THEN Undefined ELSE included[Len(included)])
    ELSE type

\* setView, lines 54-56: a type that is not included falls back to included[0].
EffectiveType(type) ==
    IF ~Includes(included, type) THEN First(included) ELSE type

\* this._view?.type
ViewType(v) == IF v = NoView THEN Undefined ELSE ViewTypeOfClass(created[v].class)

\* A slip in setView: the previous view is disposed after the new one is built.
SetViewOps_DisposeLate(type) ==
    <<<<"setContext", type>>>>
    \o (IF getView(type) = Undefined THEN <<>> ELSE <<<<"new", getView(type)>>>>)
    \o (IF view = NoView THEN <<>> ELSE <<<<"dispose", view>>>>)

\* setView, lines 61-64, in order: setContext, this._view?.dispose(), getView.
SetViewOps(type) ==
    <<<<"setContext", type>>>>
    \o (IF view = NoView THEN <<>> ELSE <<<<"dispose", view>>>>)
    \o (IF getView(type) = Undefined THEN <<>> ELSE <<<<"new", getView(type)>>>>)

\* A slip in setView: the requested type is recorded, not the effective one.
LastSelectedAfter_Requested(type) == type

\* setView, line 57: what is recorded as the last selected view.
LastSelectedAfter(type) == EffectiveType(type)

\* A slip at line 59: the check for the current view's type is left out.
IsCurrentType_Never(t) == FALSE

\* setView, line 59: this._view?.type === type
IsCurrentType(t) == ViewType(view) = t

\* A slip at line 61: the context key is set to the type that was asked for.
ContextValue_Requested(type, t) == type

\* setView, line 61: the value setContext is called with, the type as lines
\* 54-56 have left it.
ContextValue(type, t) == t

\* this._view?.dispose(), line 62: the views created, view v disposed of.
AfterDisposeOfView(v) ==
    [i \in 1..Len(created) |->
        IF i = v THEN [created[i] EXCEPT !.disposed = TRUE] ELSE created[i]]

\* setView, the whole method.
setView(type) ==
    LET t == EffectiveType(type) IN
    /\ requested' = type
    /\ lastSelectedScmGroupedView' = LastSelectedAfter(type)
    /\ IF IsCurrentType(t)
       THEN /\ returned' = view
            /\ ops' = <<>>
            /\ UNCHANGED <<view, created, contextKey>>
       ELSE /\ contextKey' = ContextValue(type, t)
            /\ ops' = SetViewOps(t)
            /\ LET disposedOld == AfterDisposeOfView(view)
               IN IF getView(t) = Undefined
                  THEN /\ created' = disposedOld
                       /\ view' = NoView
                       /\ returned' = NoView
                  ELSE /\ Len(created) < MaxViews
                       /\ created' = Append(disposedOld,
                                            [class |-> getView(t), disposed |-> FALSE])
                       /\ view' = Len(created) + 1
                       /\ returned' = Len(created) + 1

\* The constructor: registers the commands, then setView(lastSelectedScmGroupedView).
Constructor ==
    /\ vpc = "new"
    /\ vpc' = "live"
    /\ registered' = TRUE
    /\ lastCall' = "constructor"
    /\ setView(lastSelectedScmGroupedView)
    /\ UNCHANGED <<wizVars, homeVars, included, executed>>

\* One of the nine gitlens.views.scm.grouped.<type> commands.
SetViewCommand ==
    /\ vpc = "live"
    /\ registered
    /\ lastCall' = "setView"
    /\ \E type \in GroupableTreeViewTypes : setView(type)
    /\ UNCHANGED <<wizVars, homeVars, vpc, included, registered, executed>>

\* gitlens.views.scm.grouped.refresh
RefreshCommand ==
    /\ vpc = "live"
    /\ registered
    /\ lastCall' = "refresh"
    /\ executed' = IF view = NoView THEN executed ELSE ViewType(view)
    /\ UNCHANGED <<wizVars, homeVars, vpc, included, lastSelectedScmGroupedView, view, created,
                   registered, contextKey, ops, requested, returned>>

\* dispose()
Dispose ==
    /\ vpc = "live"
    /\ vpc' = "disposed"
    /\ registered' = FALSE
    /\ lastCall' = "dispose"
    /\ created' = [i \in 1..Len(created) |->
                      IF i = view THEN [created[i] EXCEPT !.disposed = TRUE]
                                  ELSE created[i]]
    /\ ops' = IF view = NoView THEN <<>> ELSE <<<<"dispose", view>>>>
    /\ UNCHANGED <<wizVars, homeVars, included, lastSelectedScmGroupedView, view, contextKey,
                   executed, requested, returned>>

\* setView called on the object itself, as its owner may at any time, also
\* after dispose().
SetViewCall ==
    /\ vpc \in {"live", "disposed"}
    /\ lastCall' = "setView"
    /\ \E type \in GroupableTreeViewTypes : setView(type)
    /\ UNCHANGED <<wizVars, homeVars, vpc, included, registered, executed>>

SeqsUpTo(S, n) == UNION {[1..k -> S] : k \in 0..n}

ViewInit ==
    /\ vpc = "new"
    /\ included \in SeqsUpTo(GroupableTreeViewTypes, MaxIncluded)
    /\ lastSelectedScmGroupedView \in GroupableTreeViewTypes \cup {Undefined}
    /\ view = NoView
    /\ created = <<>>
    /\ registered = FALSE
    /\ contextKey = Undefined
    /\ executed = Undefined
    /\ ops = <<>>
    /\ lastCall = "none"
    /\ requested = Undefined
    /\ returned = NoView

ViewNext == Constructor \/ SetViewCommand \/ RefreshCommand \/ Dispose

\* The calls of the methods of a ScmGroupedView, in any order.
CallsNext == Constructor \/ SetViewCall \/ Dispose
(* ======================================================================= *)
(*                       LaunchpadCommand                                  *)
(* ======================================================================= *)

\* The refresh tasks the debouncer may invoke in one run of the wizard.
MaxRefresh == 2
\* The value state.counter may reach (the steps answered in a row).
MaxCounter == 3
\* The LaunchpadCommand instances constructed.
MaxRuns == 1

KeyCollapsed == "launchpad:groups:collapsed"
KeyHasInteracted == "launchpad:indicator:hasInteracted"

\* launchpadGroups (launchpadProvider), in display order.
launchpadGroups ==
    <<"current-branch", "pinned", "mergeable", "blocked", "follow-up", "needs-review",
      "waiting-for-review", "draft", "other", "snoozed">>

LaunchpadGroup == {launchpadGroups[i] : i \in 1..Len(launchpadGroups)}

\* line 150
defaultCollapsedGroups == {"draft", "other", "snoozed"}

\* supportedLaunchpadIntegrations (launchpadProvider)
supportedLaunchpadIntegrations == {"github", "gitlab"}

\* The LaunchpadCommand instances constructed one after the other, where the
\* constructions themselves are looked at.
MaxConstructions == 3

\* The times new Date().toISOString() gives, construction after construction;
\* "t1" is a time before the first of them.
Clock == <<"t2", "t3", "t4">>

(* ----------------------------- values ---------------------------------- *)

NoError == [name |-> "", status |-> -1, text |-> ""]
PlainError == [name |-> "Error", status |-> -1, text |-> "Error: failed"]
HttpError == [name |-> "HttpError", status |-> 500, text |-> "HttpError: failed"]

\* The pull requests the provider knows: id, the group groupAndSortLaunchpadItems
\* puts it in, and whether a search found it.
PR(id) ==
    IF id = "1" THEN [id |-> "1", group |-> "mergeable", isSearched |-> FALSE]
    ELSE [id |-> id, group |-> "draft", isSearched |-> TRUE]

\* What getCategorizedItems may resolve to: LaunchpadCategorizedResult.
Results ==
    {[error |-> NoError, items |-> <<PR("1"), PR("3")>>],
     [error |-> PlainError, items |-> <<>>],
     [error |-> HttpError, items |-> <<PR("1")>>]}

NoItem == [id |-> "", group |-> ""]

NoAction == [action |-> Undefined, target |-> ""]
StringAction(a) == [action |-> a, target |-> ""]
\* a LaunchpadTargetAction
TargetAction(a, t) == [action |-> a, target |-> t]

\* LaunchpadAction
LaunchpadActions ==
    {"merge", "open", "soft-open", "switch", "show-overview", "open-worktree",
     "switch-and-code-suggest", "code-suggest", "open-changes", "open-in-graph"}

\* What the user may type into the picker.
SearchValues == {"", "bug", "1"}

\* The entries of quickpick.items. A heading stands for the separator and the
\* Reload directive buildGroupHeading returns.
Heading(ui) == [kind |-> "heading", id |-> "", group |-> ui, alwaysShow |-> FALSE]
ItemEntry(i, ui, alwaysShow) ==
    [kind |-> "item", id |-> i.id, group |-> ui, alwaysShow |-> alwaysShow]
\* createDirectiveQuickPickItem(Directive.Cancel, undefined, { label: 'OK' })
OkDirective == [kind |-> "ok", id |-> "", group |-> "", alwaysShow |-> FALSE]

\* isDirectiveQuickPickItem
isDirectiveQuickPickItem(e) == e.kind \in {"heading", "ok"}

\* 'item' in i && i.item?.id
HasItemId(e) == e.kind = "item"

(* ------------------------- pure functions ------------------------------ *)

\* groupAndSortLaunchpadItems (launchpadProvider): the items of a group, in order.
GroupItems(its, ui) == SelectSeq(its, LAMBDA i : i.group = ui)

\* context.collapsed.get(ui), as a condition
IsCollapsed(map, ui) == ui \in DOMAIN map /\ map[ui]

\* A slip in getItems: the items of a collapsed group are listed all the same.
GroupEntries_IgnoreCollapsed(its, ui, map, isSearching) ==
    IF GroupItems(its, ui) = <<>> THEN <<>>
    ELSE (IF isSearching THEN <<>> ELSE <<Heading(ui)>>)
         \o [k \in 1..Len(GroupItems(its, ui)) |->
                ItemEntry(GroupItems(its, ui)[k], ui, isSearching)]

\* getItems, lines 479-490: what one group contributes.
GroupEntries(its, ui, map, isSearching) ==
    IF GroupItems(its, ui) = <<>> THEN <<>>
    ELSE IF ~isSearching /\ IsCollapsed(map, ui) THEN <<Heading(ui)>>
    ELSE (IF isSearching THEN <<>> ELSE <<Heading(ui)>>)
         \o [k \in 1..Len(GroupItems(its, ui)) |->
                ItemEntry(GroupItems(its, ui)[k], ui, isSearching)]

\* getItems, lines 467-494
getItems(res, map, isSearching) ==
    LET F[n \in 0..Len(launchpadGroups)] ==
            IF n = 0 THEN <<>>
            ELSE F[n - 1] \o GroupEntries(res.items, launchpadGroups[n], map, isSearching)
    IN F[Len(launchpadGroups)]

\* lines 499-505: the text of the placeholder for an error
UnableToLoad(error) ==
    IF error.name = "HttpError" /\ error.status >= 0
    THEN <<"Unable to load items (", "status", ": ", error.text, ")">>
    ELSE <<"Unable to load items (", error.text, ")">>

AllDone == <<"All done! Take a vacation">>
ChooseAnItem == <<"Choose an item, type a term to search, or paste in a PR URL">>

\* A slip in getItemsAndPlaceholder: the check for an empty list comes first and
\* the error is only looked at after it.
getItemsAndPlaceholder_ErrorLast(res, map, isSearching) ==
    IF Len(res.items) = 0
    THEN [placeholder |-> AllDone, items |-> <<OkDirective>>]
    ELSE IF res.error # NoError
    THEN [placeholder |-> UnableToLoad(res.error), items |-> <<OkDirective>>]
    ELSE [placeholder |-> ChooseAnItem, items |-> getItems(res, map, isSearching)]

\* getItemsAndPlaceholder, lines 496-521
getItemsAndPlaceholder(res, map, isSearching) ==
    IF res.error # NoError
    THEN [placeholder |-> UnableToLoad(res.error), items |-> <<OkDirective>>]
    ELSE IF Len(res.items) = 0
    THEN [placeholder |-> AllDone, items |-> <<OkDirective>>]
    ELSE [placeholder |-> ChooseAnItem, items |-> getItems(res, map, isSearching)]

\* A slip in combineQuickpickItemsWithSearchResults: the check against the ids
\* of the entries shown is left out.
combineQuickpickItemsWithSearchResults_AppendAll(arr, its) ==
    arr \o SelectSeq(its, LAMBDA e : HasItemId(e))

\* combineQuickpickItemsWithSearchResults, lines 523-537
combineQuickpickItemsWithSearchResults(arr, its) ==
    LET ids == {arr[k].id : k \in {k \in 1..Len(arr) : HasItemId(arr[k])}}
    IN arr \o SelectSeq(its, LAMBDA e : HasItemId(e) /\ e.id \notin ids)

\* getPullRequestIdentityValuesFromSearch (git/models/pullRequest): the PR number
\* a search value names, if any.
PrNumberOf(value) == IF value = "1" THEN "1" ELSE Undefined

\* [...map.values()].some(c => c)
SomeConnected(map) == \E id \in DOMAIN map : map[id]

\* container.launchpad.getConnectedIntegrations()
getConnectedIntegrations == [id \in supportedLaunchpadIntegrations |-> id \in integrations]

\* A slip at lines 216-221: a group of the stored list stays collapsed.
InitialCollapsed_KeepStored(storedCollapsed, initialGroup) ==
    IF initialGroup # Undefined
    THEN [g \in storedCollapsed \cup LaunchpadGroup |->
             g \in storedCollapsed \/ g # initialGroup]
    ELSE [g \in storedCollapsed |-> TRUE]

\* A slip at lines 216-221: the initial group is entered without the null check.
InitialCollapsed_NoNullCheck(storedCollapsed, initialGroup) ==
    [g \in storedCollapsed \cup LaunchpadGroup \cup {initialGroup} |->
        IF initialGroup # Undefined THEN g # initialGroup
        ELSE g \in storedCollapsed]

\* steps(), lines 208-221: the collapsed map a run starts with.
InitialCollapsed(storedCollapsed, initialGroup) ==
    IF initialGroup # Undefined
    THEN [g \in storedCollapsed \cup LaunchpadGroup |-> g # initialGroup]
    ELSE [g \in storedCollapsed |-> TRUE]

\* container.storage.get('launchpad:groups:collapsed') ?? defaultCollapsedGroups
StoredCollapsedOrDefault ==
    IF KeyCollapsed \in DOMAIN storage THEN storage[KeyCollapsed] ELSE defaultCollapsedGroups

\* container.storage.store(key, value)
StorageStore(key, value) ==
    storage' = [k \in DOMAIN storage \cup {key} |-> IF k = key THEN value ELSE storage[k]]

(* ------------------------- the quick pick ------------------------------ *)

\* What the quick pick shows for a step other than the pick step.
StepShown(placeholder) == [value |-> "", placeholder |-> placeholder, items |-> <<>>]

ConnectPlaceholder == <<"Connect an integration to get started with Launchpad">>
ConnectMorePlaceholder == <<"Connect additional integrations to Launchpad">>
ConfirmPlaceholder == <<"Choose an action to perform">>
AccessPlaceholder == <<"ensureAccessStep">>

\* Between two steps: the step that was shown is gone, and the quick pick takes
\* no input until the next step is shown.
NoStep == StepShown(<<>>)

\* QuickCommand.confirm(override): the override, or else the configured default.
ConfirmChoices(override) ==
    IF override = Undefined THEN {TRUE, FALSE} ELSE {override = "true"}

\* QuickCommand.canStepsContinue(state)
canStepsContinue(st) == st.counter >= 0

\* endSteps(state)
endSteps(st) == [st EXCEPT !.counter = -1]

\* The user went back from a step: the step counter steps back.
WentBack(st) == [st EXCEPT !.counter = IF st.counter > 0 THEN st.counter - 1 ELSE 0]

\* canPickStepContinue(step, state, selection), with a selection
Continued(st) == [st EXCEPT !.counter = st.counter + 1]

(* --------------------------- the debouncer ----------------------------- *)

\* cancelCurrentExecution: the token of the running task, if any, is cancelled.
CancelCurrent(ts, cur) ==
    [r \in 1..Len(ts) |->
        IF r = cur /\ ts[r].phase = "run"
        THEN [ts[r] EXCEPT !.cancelled = TRUE] ELSE ts[r]]

IdleDebouncer == [timer |-> FALSE, isSearching |-> FALSE, cur |-> 0, orphan |-> FALSE]

\* updateItemsDebouncer(task): the task waits for the interval, superseding the
\* one that waits and cancelling the one that runs. Of the `search` the task
\* has captured (line 542) it keeps what lines 555 and 557 read: Boolean(search).
Debounce(search) ==
    /\ debouncer' = [debouncer EXCEPT !.timer = TRUE, !.isSearching = (search # ""),
                                      !.orphan = FALSE]
    /\ tasks' = CancelCurrent(tasks, debouncer.cur)

\* updateItemsDebouncer.cancel()
DebouncerCancel ==
    /\ debouncer' = [debouncer EXCEPT !.timer = FALSE, !.isSearching = FALSE,
                                      !.orphan = FALSE]
    /\ tasks' = CancelCurrent(tasks, debouncer.cur)

\* The pick step ends: its quick pick is gone, and the refresh tasks that wait
\* or run keep their reference to it (the `quickpick` of line 540).
StepGone ==
    /\ tasks' = [r \in 1..Len(tasks) |->
                    IF tasks[r].phase = "run" THEN [tasks[r] EXCEPT !.orphan = TRUE]
                    ELSE tasks[r]]
    /\ debouncer' = [debouncer EXCEPT !.orphan = debouncer.timer]

\* updateItems, lines 539-562: the search is read from the picker and the task
\* is handed to the debouncer.
updateItems(qp) == Debounce(qp.value)

(* ------------------------ action dispatch ------------------------------ *)

\* A slip at lines 345-350: switchTo is called without its options.
DispatchCalls_NoOptions(st) ==
    LET a == st.action.action
        i == st.item.id
    IN IF st.action.target = ""
       THEN CASE a = "merge" -> <<<<"merge", i, "">>>>
              [] a \in {"open", "soft-open"} -> <<<<"open", i, "">>>>
              [] a \in {"switch", "show-overview", "open-worktree",
                        "switch-and-code-suggest", "code-suggest"} ->
                     <<<<"switchTo", i, "">>>>
              [] a = "open-changes" -> <<<<"openChanges", i, "">>>>
              [] a = "open-in-graph" -> <<<<"openInGraph", i, "">>>>
              [] OTHER -> <<>>
       ELSE CASE a = "open-suggestion" -> <<<<"openCodeSuggestion", i, st.action.target>>>>
              [] OTHER -> <<>>

\* steps(), lines 329-366: the collaborator call an action makes.
DispatchCalls(st) ==
    LET a == st.action.action
        i == st.item.id
    IN IF st.action.target = ""
       THEN CASE a = "merge" -> <<<<"merge", i, "">>>>
              [] a \in {"open", "soft-open"} -> <<<<"open", i, "">>>>
              [] a \in {"switch", "show-overview"} -> <<<<"switchTo", i, "">>>>
              [] a = "open-worktree" -> <<<<"switchTo", i, "skipWorktreeConfirmations">>>>
              [] a \in {"switch-and-code-suggest", "code-suggest"} ->
                     <<<<"switchTo", i, "startCodeSuggestion">>>>
              [] a = "open-changes" -> <<<<"openChanges", i, "">>>>
              [] a = "open-in-graph" -> <<<<"openInGraph", i, "">>>>
              [] OTHER -> <<>>
       ELSE CASE a = "open-suggestion" -> <<<<"openCodeSuggestion", i, st.action.target>>>>
              [] OTHER -> <<>>

\* steps(), lines 337-340 and 368: soft-open stays in the loop with counter 2,
\* every other action ends the steps.
AfterDispatch(st) ==
    IF st.action.target = "" /\ st.action.action = "soft-open"
    THEN [st EXCEPT !.counter = 2]
    ELSE endSteps(st)

(* ----------------------------- steps() --------------------------------- *)

\* The call container.launchpad.getCategorizedItems made by updateContextItems,
\* with the line updateContextItems is called at.
GetCategorizedItems(line) == <<"getCategorizedItems", line, "">>

\* ensureAccessStep (line 270): the wizard is let through, and line 273 requests
\* the items; or a step is shown.
EnsureAccess(called) ==
    \/ /\ pc' = "load273"
       /\ quickpick' = NoStep
       /\ calls' = Append(called, GetCategorizedItems("273"))
    \/ /\ pc' = "accessStep"
       /\ quickpick' = StepShown(AccessPlaceholder)
       /\ calls' = called

\* The wizard is over: its state and the locals of steps() are gone.
Discarded ==
    /\ state' = [item |-> NoItem, action |-> NoAction, counter |-> -1,
                 confirm |-> Undefined, initialGroup |-> Undefined]
    /\ hasConnectedIntegrations' = FALSE
    /\ newlyConnected' = FALSE
    /\ quickpick' = NoStep

\* steps(), lines 233-270 and 371, reached at the start and by every `continue`,
\* with the state the iteration before has left: the loop's condition, the
\* connect step when the context holds no connected integration, and else
\* ensureAccessStep. byUser: whether the user has answered a step since the
\* items requested at line 273 last came back; called: what the step has called
\* on container.launchpad before.
LoopTop(st, connected, byUser, called) ==
    /\ answered' = byUser
    /\ IF ~canStepsContinue(st)
       THEN /\ pc' = "done"
            /\ Discarded
            /\ calls' = called
            /\ UNCHANGED lastConnect
       ELSE /\ state' = st
            /\ newlyConnected' = FALSE
            /\ lastConnect' = "none"
            /\ hasConnectedIntegrations' = SomeConnected(connected)
            /\ IF ~SomeConnected(connected)
               THEN /\ pc' = "connect"
                    /\ quickpick' = StepShown(ConnectPlaceholder)
                    /\ calls' = called
               ELSE EnsureAccess(called)

\* A slip at line 315: the confirm step is skipped.
ShowsConfirmStep_Never(confirm) == FALSE

\* steps(), line 315: the confirm step is shown when this.confirm(state.confirm)
\* holds.
ShowsConfirmStep(confirm) == confirm

\* steps(), lines 313-368, from assertsLaunchpadStepState on: the confirm step is
\* shown, or the action is dispatched at once and the loop goes on.
ConfirmOrDispatch(st, connected, byUser) ==
    IF st.item = NoItem
    THEN /\ pc' = "threw"
         /\ Discarded
         /\ calls' = <<>>
         /\ answered' = byUser
         /\ UNCHANGED lastConnect
    ELSE \E confirm \in ConfirmChoices(st.confirm) :
            IF ShowsConfirmStep(confirm)
            THEN /\ pc' = "confirm"
                 /\ state' = st
                 /\ calls' = <<<<"ensureLaunchpadItemCodeSuggestions", st.item.id, "">>>>
                 /\ quickpick' = StepShown(ConfirmPlaceholder)
                 /\ answered' = byUser
                 /\ UNCHANGED <<hasConnectedIntegrations, newlyConnected, lastConnect>>
            ELSE LoopTop(AfterDispatch(st), connected, byUser, DispatchCalls(st))

(* --------------------- the constructor and steps() --------------------- *)

\* What the callers pass as args: source, confirm and state (item, action,
\* initialGroup). The indicator passes its source, with or without a group;
\* other callers pass an item and an action, to be confirmed or not.
CommandArgs ==
    {[source |-> "launchpad-indicator", item |-> NoItem, action |-> NoAction,
      confirm |-> Undefined, initialGroup |-> Undefined],
     [source |-> "launchpad-indicator", item |-> NoItem, action |-> NoAction,
      confirm |-> Undefined, initialGroup |-> "mergeable"],
     [source |-> Undefined, item |-> [id |-> "1", group |-> "mergeable"],
      action |-> StringAction("merge"), confirm |-> "true", initialGroup |-> Undefined],
     [source |-> Undefined, item |-> [id |-> "1", group |-> "mergeable"],
      action |-> StringAction("soft-open"), confirm |-> "false", initialGroup |-> Undefined]}

\* A slip in the constructor: the timestamp is stored whatever is stored already.
ShouldStoreHasInteracted_Always(source) == source = "launchpad-indicator"

\* The constructor's condition, lines 163-166.
ShouldStoreHasInteracted(source) ==
    source = "launchpad-indicator" /\ KeyHasInteracted \notin DOMAIN storage

\* The constructor, lines 158-191, for the n instances a specification allows.
ConstructWithin(n) ==
    /\ pc \in {"new", "done", "closed", "threw"}
    /\ runs < n
    /\ runs' = runs + 1
    /\ pc' = "constructed"
    /\ \E args \in CommandArgs, now \in {Clock[runs + 1]} :
          /\ IF ShouldStoreHasInteracted(args.source)
             THEN StorageStore(KeyHasInteracted, now)
             ELSE UNCHANGED storage
          /\ thisSource' = IF args.source = Undefined THEN "commandPalette" ELSE args.source
          /\ state' = [item |-> args.item, action |-> args.action,
                       counter |-> IF args.item # NoItem THEN 1 ELSE 0,
                       confirm |-> args.confirm, initialGroup |-> args.initialGroup]
    /\ result' = [error |-> NoError, items |-> <<>>]
    /\ collapsed' = <<>>
    /\ connectedIntegrations' = <<>>
    /\ hasConnectedIntegrations' = FALSE
    /\ newlyConnected' = FALSE
    /\ lastConnect' = "none"
    /\ quickpick' = NoStep
    /\ items' = <<>>
    /\ hasDisconnectedIntegrations' = FALSE
    /\ debouncer' = IdleDebouncer
    /\ tasks' = <<>>
    /\ answered' = TRUE
    /\ calls' = <<>>
    /\ frozen' = 0
    /\ UNCHANGED <<viewVars, homeVars, integrations>>

\* The constructor, lines 158-191.
Construct == ConstructWithin(MaxRuns)

\* The constructor, lines 158-191, of one command after the other.
ConstructAgain == ConstructWithin(MaxConstructions)

\* steps(), lines 203-231: the context is built, and the loop is entered.
StartSteps ==
    /\ pc = "constructed"
    /\ collapsed' = InitialCollapsed(StoredCollapsedOrDefault, state.initialGroup)
    /\ connectedIntegrations' = getConnectedIntegrations
    /\ result' = [error |-> NoError, items |-> <<>>]
    /\ LoopTop(state, getConnectedIntegrations, TRUE, <<>>)
    /\ UNCHANGED <<viewVars, homeVars, thisSource,
                   runs, storage, integrations, items,
                   hasDisconnectedIntegrations, debouncer, tasks, frozen>>

\* The user's answer to the connect step (confirmLocalIntegrationConnectStep or
\* confirmCloudIntegrationsConnectStep): an integration is chosen and the step
\* is frozen while it connects, or the step is left and steps() returns
\* (lines 256-258).
ConnectStepAnswer ==
    /\ pc = "connect"
    /\ answered' = TRUE
    /\ \/ /\ state.counter < MaxCounter
          /\ state' = Continued(state)
          /\ frozen' = frozen + 1
          /\ pc' = "connecting"
          /\ quickpick' = NoStep
          /\ UNCHANGED <<lastConnect, hasConnectedIntegrations, newlyConnected>>
       \/ /\ lastConnect' = "declined"
          /\ pc' = "done"
          /\ Discarded
          /\ UNCHANGED frozen
    /\ calls' = <<>>
    /\ UNCHANGED <<viewVars, homeVars, thisSource,
                   runs, storage, result, collapsed, connectedIntegrations,
                   integrations, items, hasDisconnectedIntegrations, debouncer, tasks>>

\* A slip at lines 260 and 302: result.resume() is left out.
Resume_Forgotten(n) == n

\* result.resume(), lines 260 and 302: the Disposable of freezeStep is disposed
\* of; n counts the freezes of the quick pick not yet released.
Resume(n) == n - 1

\* A slip at lines 262-267: a failed connection goes on to the list all the same.
ContinuesAfterConnect_Never(connected) == FALSE

\* steps(), lines 262-265: a failed connection starts the loop over.
ContinuesAfterConnect(connected) == ~connected

\* The connection attempt of the connect step returns (ensureIntegrationConnected
\* or connectCloudIntegrations); steps(), lines 260-270.
ConnectReturn ==
    /\ pc = "connecting"
    /\ frozen' = Resume(frozen)
    /\ \E connected \in BOOLEAN :
          /\ IF connected
             THEN \E id \in supportedLaunchpadIntegrations \ integrations :
                     integrations' = integrations \cup {id}
             ELSE UNCHANGED integrations
          /\ IF ContinuesAfterConnect(connected)
             THEN LoopTop(state, connectedIntegrations, answered, <<>>)
             ELSE /\ lastConnect' = IF connected THEN "connected" ELSE "failed"
                  /\ newlyConnected' = connected
                  /\ EnsureAccess(<<>>)
                  /\ UNCHANGED <<state, hasConnectedIntegrations, answered>>
    /\ UNCHANGED <<viewVars, homeVars, thisSource,
                   runs, storage, result, collapsed, connectedIntegrations,
                   items, hasDisconnectedIntegrations, debouncer, tasks>>

\* The user's answer to ensureAccessStep's step: access is gained and line 273
\* requests the items, or the step is left and the loop starts over (line 271).
AccessStepAnswer ==
    /\ pc = "accessStep"
    /\ \/ /\ pc' = "load273"
          /\ answered' = TRUE
          /\ quickpick' = NoStep
          /\ calls' = <<GetCategorizedItems("273")>>
          /\ UNCHANGED <<state, hasConnectedIntegrations, newlyConnected, lastConnect>>
       \/ LoopTop(WentBack(state), connectedIntegrations, TRUE, <<>>)
    /\ UNCHANGED <<viewVars, homeVars, thisSource,
                   runs, storage, result, collapsed, connectedIntegrations,
                   integrations, items, hasDisconnectedIntegrations, debouncer, tasks,
                   frozen>>

\* pickLaunchpadItemStep, lines 379 and 564-717: the pick step is built and shown.
ShowPickStep(res) ==
    LET built == getItemsAndPlaceholder(res, collapsed, FALSE) IN
    /\ pc' = "pick"
    /\ hasDisconnectedIntegrations' =
          \E id \in DOMAIN getConnectedIntegrations : ~getConnectedIntegrations[id]
    /\ items' = built.items
    /\ quickpick' = [value |-> "", placeholder |-> built.placeholder, items |-> built.items]
    /\ calls' = <<>>
    /\ answered' = FALSE
    /\ UNCHANGED <<state, hasConnectedIntegrations, newlyConnected, lastConnect>>

\* updateContextItems (lines 1425-1436) called at line 273 returns, its two
\* awaits taken as one; steps(), lines 275-311: the pick step is shown unless an
\* item is chosen already.
Load273Return ==
    /\ pc = "load273"
    /\ \E res \in Results :
          /\ result' = res
          /\ connectedIntegrations' = getConnectedIntegrations
          /\ IF state.counter < 1 \/ state.item = NoItem
             THEN ShowPickStep(res)
             ELSE /\ ConfirmOrDispatch(state, getConnectedIntegrations, FALSE)
                  /\ UNCHANGED <<items, hasDisconnectedIntegrations>>
    /\ UNCHANGED <<viewVars, homeVars, thisSource,
                   runs, storage, collapsed, integrations, debouncer, tasks,
                   frozen>>

\* updateContextItems called at line 306 returns; line 307 starts the loop over.
Load306Return ==
    /\ pc = "load306"
    /\ \E res \in Results : result' = res
    /\ connectedIntegrations' = getConnectedIntegrations
    /\ LoopTop(state, getConnectedIntegrations, answered, <<>>)
    /\ UNCHANGED <<viewVars, homeVars, thisSource,
                   runs, storage, collapsed, integrations, items,
                   hasDisconnectedIntegrations, debouncer, tasks, frozen>>

(* --------------------------- the pick step ----------------------------- *)

\* doesPullRequestSatisfyRepositoryURLIdentity (git/models/pullRequest): the
\* strict match needs the repository of a pasted URL, which no search value of
\* SearchValues carries.
MatchesRepositoryIdentity(e, value) == FALSE

\* onDidChangeValue, lines 613-621: the entry of the picker that the typed PR
\* number names (0: none), the strict match first.
LocalMatch(shown, value) ==
    LET strict == {k \in 1..Len(shown) :
                      HasItemId(shown[k]) /\ MatchesRepositoryIdentity(shown[k], value)}
        byId == {k \in 1..Len(shown) :
                    HasItemId(shown[k]) /\ shown[k].id = PrNumberOf(value)}
    IN IF strict # {} THEN CHOOSE k \in strict : \A j \in strict : k <= j
       ELSE IF byId # {} THEN CHOOSE k \in byId : \A j \in byId : k <= j
       ELSE 0

\* onDidChangeValue, lines 583-596: the step's own entries, their alwaysShow
\* flags reset, without the headings and directives when a value is typed.
Considered(its, value) ==
    LET reset == [k \in 1..Len(its) |-> [its[k] EXCEPT !.alwaysShow = FALSE]]
    IN IF value # "" THEN SelectSeq(reset, LAMBDA e : ~isDirectiveQuickPickItem(e))
       ELSE reset

\* A slip at lines 609-633: the items of the picker are not looked at.
NeedsFetch_AnyValue(its, value) == value # ""

\* Whether onDidChangeValue goes on to updateItems (line 635).
NeedsFetch(its, value) ==
    /\ value # ""
    /\ (PrNumberOf(value) = Undefined \/ LocalMatch(Considered(its, value), value) = 0)

\* The user types: onDidChangeValue, lines 580-637.
ChangeValue ==
    /\ pc = "pick"
    /\ \E value \in SearchValues \ {quickpick.value} :
        LET reset == [k \in 1..Len(items) |-> [items[k] EXCEPT !.alwaysShow = FALSE]]
            shown == Considered(items, value)
            found == IF value # "" /\ PrNumberOf(value) # Undefined
                     THEN LocalMatch(shown, value) ELSE 0
            mark(s, id) == [k \in 1..Len(s) |->
                              IF HasItemId(s[k]) /\ s[k].id = id
                              THEN [s[k] EXCEPT !.alwaysShow = TRUE] ELSE s[k]]
        IN IF NeedsFetch(items, value)
           THEN /\ Len(tasks) < MaxRefresh
                /\ items' = reset
                /\ quickpick' = [quickpick EXCEPT !.value = value, !.items = shown]
                /\ updateItems([quickpick EXCEPT !.value = value])
           ELSE /\ items' = IF found = 0 THEN reset ELSE mark(reset, shown[found].id)
                /\ quickpick' = [quickpick EXCEPT
                                    !.value = value,
                                    !.items = IF found = 0 THEN shown
                                              ELSE mark(shown, shown[found].id)]
                /\ DebouncerCancel
    /\ calls' = <<>>
    /\ UNCHANGED <<viewVars, homeVars, thisSource,
                   answered, pc, runs, storage, state, result, collapsed,
                   connectedIntegrations, hasConnectedIntegrations, newlyConnected,
                   lastConnect, integrations, hasDisconnectedIntegrations, frozen>>

\* onDidClickButton, lines 659-662: Refresh.
ClickRefresh ==
    /\ pc = "pick"
    /\ Len(tasks) < MaxRefresh
    /\ updateItems(quickpick)
    /\ calls' = <<>>
    /\ UNCHANGED <<viewVars, homeVars, thisSource,
                   answered, pc, runs, storage, state, result, collapsed,
                   connectedIntegrations, hasConnectedIntegrations, newlyConnected,
                   lastConnect, integrations, quickpick, items,
                   hasDisconnectedIntegrations, frozen>>

\* onDidClickButton, lines 640-642: Connect; the step ends with
\* connectMoreIntegrationsItem and the connect step is shown (lines 295-299).
ClickConnect ==
    /\ pc = "pick"
    /\ hasDisconnectedIntegrations
    /\ state.counter < MaxCounter
    /\ answered' = TRUE
    /\ state' = Continued(state)
    /\ pc' = "connectMore"
    /\ quickpick' = StepShown(ConnectMorePlaceholder)
    /\ calls' = <<>>
    /\ items' = <<>>
    /\ hasDisconnectedIntegrations' = FALSE
    /\ StepGone
    /\ UNCHANGED <<viewVars, homeVars, thisSource,
                   runs, storage, result, collapsed, connectedIntegrations,
                   hasConnectedIntegrations, newlyConnected, lastConnect, integrations, frozen>>

\* onDidClickItemButton, lines 667-714: a button of a pull request is clicked;
\* after the button's own call (open, snooze, pin, merge, switchTo) comes
\* updateItems.
ClickItemButton ==
    /\ pc = "pick"
    /\ Len(tasks) < MaxRefresh
    /\ \E k \in 1..Len(quickpick.items) : HasItemId(quickpick.items[k])
    /\ calls' = <<>>
    /\ updateItems(quickpick)
    /\ UNCHANGED <<viewVars, homeVars, thisSource,
                   answered, pc, runs, storage, state, result, collapsed,
                   connectedIntegrations, hasConnectedIntegrations, newlyConnected,
                   lastConnect, integrations, quickpick, items,
                   hasDisconnectedIntegrations, frozen>>

\* A slip in the heading's onDidSelect: the collapsed groups are stored under a
\* key of their own.
ToggleStoreKey_PerGroup(ui) == "launchpad:groups:collapsed:" \o ui

\* buildGroupHeading.onDidSelect, line 399: the key the collapsed groups are stored under.
ToggleStoreKey(ui) == KeyCollapsed

\* A slip at line 397: the collapsed groups are stored whatever the run was
\* started with.
StoresToggle_Always(st) == TRUE

\* buildGroupHeading.onDidSelect, line 397: a toggle is stored only in a run
\* without an initial group.
StoresToggle(st) == st.initialGroup = Undefined

\* A group heading is selected: buildGroupHeading.onDidSelect, lines 394-402;
\* the Reload directive leaves the step and the loop starts over (line 293).
SelectHeading ==
    /\ pc = "pick"
    /\ \E k \in 1..Len(quickpick.items) :
          /\ quickpick.items[k].kind = "heading"
          /\ LET ui == quickpick.items[k].group
                 flag == ~IsCollapsed(collapsed, ui)
                 map == [g \in DOMAIN collapsed \cup {ui} |->
                            IF g = ui THEN flag ELSE collapsed[g]]
             IN /\ collapsed' = map
                /\ IF StoresToggle(state)
                   THEN StorageStore(ToggleStoreKey(ui), {g \in DOMAIN map : map[g]})
                   ELSE UNCHANGED storage
    /\ LoopTop(state, connectedIntegrations, TRUE, <<>>)
    /\ items' = <<>>
    /\ hasDisconnectedIntegrations' = FALSE
    /\ StepGone
    /\ UNCHANGED <<viewVars, homeVars, thisSource,
                   runs, result, connectedIntegrations, integrations, frozen>>

\* A pull request is selected: lines 717-725 and 310, then lines 313-368.
SelectItem ==
    /\ pc = "pick"
    /\ state.counter < MaxCounter
    /\ \E k \in 1..Len(quickpick.items) :
          /\ HasItemId(quickpick.items[k])
          /\ ConfirmOrDispatch([Continued(state) EXCEPT
                                   !.item = [id |-> quickpick.items[k].id,
                                             group |-> quickpick.items[k].group]],
                               connectedIntegrations, TRUE)
    /\ items' = <<>>
    /\ hasDisconnectedIntegrations' = FALSE
    /\ StepGone
    /\ UNCHANGED <<viewVars, homeVars, thisSource,
                   runs, storage, result, collapsed, connectedIntegrations,
                   integrations, frozen>>

\* The user goes back from the pick step, the connect-more step or the confirm
\* step: the step returns StepResultBreak and the loop starts over (lines 293,
\* 300, 320).
StepBack ==
    /\ pc \in {"pick", "connectMore", "confirm"}
    /\ LoopTop(WentBack(state), connectedIntegrations, TRUE, <<>>)
    /\ items' = <<>>
    /\ hasDisconnectedIntegrations' = FALSE
    /\ StepGone
    /\ UNCHANGED <<viewVars, homeVars, thisSource,
                   runs, storage, result, collapsed, connectedIntegrations,
                   integrations, frozen>>

\* The user closes the quick pick, or selects a Cancel directive (the OK of an
\* empty or failed list): the wizard ends and steps() is not resumed.
Close ==
    /\ pc \in {"connect", "accessStep", "pick", "connectMore", "confirm"}
    /\ answered' = TRUE
    /\ pc' = "closed"
    /\ Discarded
    /\ calls' = <<>>
    /\ items' = <<>>
    /\ hasDisconnectedIntegrations' = FALSE
    /\ StepGone
    /\ UNCHANGED <<viewVars, homeVars, thisSource,
                   runs, storage, result, collapsed, connectedIntegrations,
                   lastConnect, integrations, frozen>>

(* ---------------- the connect step reached from the pick step ----------- *)

\* The user's answer to the connect step of lines 295-299: the step is frozen
\* while the integration connects.
ConnectMoreAnswer ==
    /\ pc = "connectMore"
    /\ state.counter < MaxCounter
    /\ answered' = TRUE
    /\ state' = Continued(state)
    /\ frozen' = frozen + 1
    /\ pc' = "connectingMore"
    /\ calls' = <<>>
    /\ quickpick' = NoStep
    /\ UNCHANGED <<viewVars, homeVars, thisSource,
                   runs, storage, result, collapsed, connectedIntegrations,
                   hasConnectedIntegrations, newlyConnected, lastConnect, integrations,
                   items, hasDisconnectedIntegrations, debouncer, tasks>>

\* The connection attempt returns; steps(), lines 302-306: the items are requested.
ConnectMoreReturn ==
    /\ pc = "connectingMore"
    /\ frozen' = Resume(frozen)
    /\ \E connected \in BOOLEAN :
          /\ IF connected
             THEN \E id \in supportedLaunchpadIntegrations \ integrations :
                     integrations' = integrations \cup {id}
             ELSE UNCHANGED integrations
          /\ lastConnect' = IF connected THEN "connected" ELSE "failed"
          /\ newlyConnected' = connected
    /\ pc' = "load306"
    /\ calls' = <<GetCategorizedItems("306")>>
    /\ UNCHANGED <<viewVars, homeVars, thisSource,
                   runs, storage, state, result, collapsed,
                   connectedIntegrations, hasConnectedIntegrations, quickpick, items,
                   hasDisconnectedIntegrations, debouncer, tasks, answered>>

(* -------------------------- the confirm step --------------------------- *)

\* What the confirm step offers: the item's suggested actions, soft-open on the
\* information rows, and a code suggestion to open.
ConfirmActions ==
    {StringAction("merge"), StringAction("soft-open"), StringAction("open-in-graph"),
     TargetAction("open-suggestion", "s1")}

\* An action is chosen in the confirm step: lines 319-368.
ConfirmSelect ==
    /\ pc = "confirm"
    /\ state.counter < MaxCounter
    /\ \E a \in ConfirmActions :
          LET st == [Continued(state) EXCEPT !.action = a]
          IN LoopTop(AfterDispatch(st), connectedIntegrations, TRUE, DispatchCalls(st))
    /\ UNCHANGED <<viewVars, homeVars, thisSource,
                   runs, storage, result, collapsed, connectedIntegrations,
                   integrations, items, hasDisconnectedIntegrations, debouncer, tasks,
                   frozen>>

(* -------------------------- the refresh tasks -------------------------- *)

\* A refresh task whose updateContextItems has returned, and one whose
\* updateContextItems has thrown.
Finished == [isSearching |-> FALSE, phase |-> "done", cancelled |-> FALSE, orphan |-> FALSE]
Threw == [isSearching |-> FALSE, phase |-> "threw", cancelled |-> FALSE, orphan |-> FALSE]

\* The debounce interval (line 154) has passed: the waiting task is invoked, a
\* new cancellation token is made for it, and updateContextItems (line 546)
\* requests the items.
TimerFire ==
    /\ debouncer.timer
    /\ Len(tasks) < MaxRefresh
    /\ tasks' = Append(CancelCurrent(tasks, debouncer.cur),
                       [isSearching |-> debouncer.isSearching, phase |-> "run",
                        cancelled |-> FALSE, orphan |-> debouncer.orphan])
    /\ debouncer' = [timer |-> FALSE, isSearching |-> FALSE, cur |-> Len(tasks) + 1,
                     orphan |-> FALSE]
    /\ calls' = <<GetCategorizedItems("546")>>
    /\ UNCHANGED <<viewVars, homeVars, thisSource,
                   pc, runs, storage, state, result, collapsed,
                   connectedIntegrations, hasConnectedIntegrations, newlyConnected,
                   lastConnect, integrations, quickpick, items,
                   hasDisconnectedIntegrations, answered, frozen>>

\* getCategorizedItems rejects for a cancelled token: the task ends there.
TaskThrow ==
    \E r \in 1..Len(tasks) :
      /\ tasks[r].phase = "run"
      /\ tasks[r].cancelled
      /\ tasks' = [tasks EXCEPT ![r] = Threw]
      /\ debouncer' = IF debouncer.cur = r THEN [debouncer EXCEPT !.cur = 0] ELSE debouncer
      /\ calls' = <<>>
      /\ UNCHANGED <<viewVars, homeVars, thisSource,
                     pc, runs, storage, state, result, collapsed,
                     connectedIntegrations, hasConnectedIntegrations, newlyConnected,
                     lastConnect, integrations, quickpick, items,
                     hasDisconnectedIntegrations, answered, frozen>>

\* A slip in updateItems: the token is not looked at.
SkipsPickerUpdate_Never(task) == FALSE

\* updateItems, lines 552-554: a cancelled task returns before the picker.
SkipsPickerUpdate(task) == task.cancelled

\* updateItems, lines 555-557: what the task assigns to the picker.
PickerAfterRefresh(qp, res, isSearching) ==
    LET built == getItemsAndPlaceholder(res, collapsed, isSearching) IN
    [qp EXCEPT !.placeholder = built.placeholder,
               !.items = IF isSearching
                         THEN combineQuickpickItemsWithSearchResults(qp.items, built.items)
                         ELSE built.items]

\* A refresh task's updateContextItems (line 546) returns, its two awaits taken
\* as one: the context is assigned (lines 1431 and 1435), and the picker
\* (lines 552-557) unless the token is cancelled; the picker of a step that has
\* ended is not the one shown.
TaskReturn ==
    \E r \in 1..Len(tasks), res \in Results :
      /\ tasks[r].phase = "run"
      /\ result' = res
      /\ connectedIntegrations' = getConnectedIntegrations
      /\ quickpick' = IF SkipsPickerUpdate(tasks[r]) \/ tasks[r].orphan THEN quickpick
                      ELSE PickerAfterRefresh(quickpick, res, tasks[r].isSearching)
      /\ tasks' = [tasks EXCEPT ![r] = Finished]
      /\ debouncer' = IF debouncer.cur = r THEN [debouncer EXCEPT !.cur = 0] ELSE debouncer
      /\ calls' = <<>>
      /\ UNCHANGED <<viewVars, homeVars, thisSource,
                     pc, runs, storage, state, collapsed,
                     hasConnectedIntegrations, newlyConnected, lastConnect, integrations,
                     items, hasDisconnectedIntegrations, answered, frozen>>

(* ======================================================================= *)
(*                             GlHomeApp                                   *)
(* ======================================================================= *)

\* The messages the host sends while the element is connected.
MaxMessages == 10

\* GlApp.state is not set.
NoState == [present |-> FALSE, previewEnabled |-> Undefined]

\* The states the state provider may hold: previewEnabled true, false or absent.
HomeStates == {[present |-> TRUE, previewEnabled |-> p] : p \in {"true", "false", Undefined}}

\* The messages of the host: DidFocusAccount, and any other.
HomeMessages == {"DidFocusAccount", "other"}

PreviewPanels == <<"gl-integration-banner", "gl-active-work", "gl-launchpad", "gl-overview">>

FeatureNav == <<"gl-feature-nav">>

\* A slip at line 72: the panels are accountShown unless the flag is false.
PreviewShown_UnlessFalse(st) == ~(st.present /\ st.previewEnabled = "false")

\* render, line 72: this.state?.previewEnabled === true
PreviewShown(st) == st.present /\ st.previewEnabled = "true"

\* render, lines 70-80: what <main> holds after gl-onboarding; when(c, t, f).
RenderMain(st) == <<"gl-onboarding">> \o (IF PreviewShown(st) THEN PreviewPanels ELSE FeatureNav)

\* createStateProvider, lines 40-44, or a later update of the state provider:
\* the state is set, and the element renders.
SetState ==
    /\ hpc # "new" \/ homeState = NoState
    /\ \E st \in HomeStates \ {homeState} : homeState' = st
    /\ rendered' = IF hpc = "connected" THEN RenderMain(homeState') ELSE rendered
    /\ UNCHANGED <<viewVars, wizVars, hpc, disposable, accountShown>>

\* connectedCallback, lines 46-56: the element subscribes to the host's messages
\* and renders.
ConnectedCallback ==
    /\ hpc \in {"new", "disconnected"}
    /\ hpc' = "connected"
    /\ disposable' = "subscribed"
    /\ rendered' = RenderMain(homeState)
    /\ UNCHANGED <<viewVars, wizVars, homeState, accountShown>>

\* disconnectedCallback, lines 58-62
DisconnectedCallback ==
    /\ hpc = "connected"
    /\ hpc' = "disconnected"
    /\ disposable' = IF disposable = "subscribed" THEN "disposed" ELSE disposable
    /\ UNCHANGED <<viewVars, wizVars, homeState, rendered, accountShown>>

\* The handler of lines 49-55 receives a message.
ReceiveMessage ==
    /\ disposable = "subscribed"
    /\ accountShown < MaxMessages
    /\ \E msg \in HomeMessages :
          accountShown' = IF msg = "DidFocusAccount" THEN accountShown + 1 ELSE accountShown
    /\ UNCHANGED <<viewVars, wizVars, hpc, homeState, rendered, disposable>>

\* The element before it is connected.
HomeInit ==
    /\ hpc = "new"
    /\ homeState \in {NoState} \cup HomeStates
    /\ rendered = <<>>
    /\ disposable = Undefined
    /\ accountShown = 0

\* No GlHomeApp is created.
HomeParked ==
    /\ hpc = "new"
    /\ homeState = NoState
    /\ rendered = <<>>
    /\ disposable = Undefined
    /\ accountShown = 0

HomeNext == SetState \/ ConnectedCallback \/ DisconnectedCallback \/ ReceiveMessage

(* ======================================================================= *)
(*        The parts of steps() and of the pick step, one at a time         *)
(* ======================================================================= *)

\* The actions a state may hold at line 325: every LaunchpadAction, none, and
\* the target action of a code suggestion.
StateActions ==
    {StringAction(a) : a \in LaunchpadActions}
       \cup {NoAction, TargetAction("open-suggestion", "s1")}

\* The groups a caller may pass as state.initialGroup, or none.
InitialGroups == {Undefined, "mergeable", "draft", "blocked"}

\* What 'launchpad:groups:collapsed' may hold when a run starts: nothing, or the
\* groups an earlier run has stored.
StoredCollapsed == {{}, {"mergeable"}, {"mergeable", "draft"}, {"pinned", "other"}}

\* Results without an error: no item, one group, two groups, two items in a group.
LoadedResults ==
    {[error |-> NoError, items |-> its] :
        its \in {<<>>, <<PR("1")>>, <<PR("1"), PR("3")>>, <<PR("3"), PR("1"), PR("4")>>}}

\* steps(), lines 325-368, for a state whose item is set: the action is
\* dispatched.
Dispatch ==
    /\ pc = "new"
    /\ pc' = "dispatched"
    /\ calls' = DispatchCalls(state)
    /\ state' = AfterDispatch(state)
    /\ UNCHANGED <<viewVars, homeVars, thisSource, runs, storage, result, collapsed,
                   connectedIntegrations, hasConnectedIntegrations, newlyConnected,
                   lastConnect, integrations, quickpick, items,
                   hasDisconnectedIntegrations, debouncer, tasks, answered, frozen>>

\* steps(), lines 208-221: the collapsed map of the run is built from the stored
\* list and state.initialGroup.
BuildCollapsed ==
    /\ pc = "new"
    /\ pc' = "collapsed"
    /\ collapsed' = InitialCollapsed(StoredCollapsedOrDefault, state.initialGroup)
    /\ UNCHANGED <<viewVars, homeVars, thisSource, runs, storage, state, result,
                   connectedIntegrations, hasConnectedIntegrations, newlyConnected,
                   lastConnect, integrations, quickpick, items,
                   hasDisconnectedIntegrations, debouncer, tasks, answered, calls,
                   frozen>>

\* getItems, lines 467-494, applied to the result and the collapsed map, for a
\* picker with or without a search value.
BuildItems ==
    /\ pc = "collapsed"
    /\ pc' = "listed"
    /\ \E v \in SearchValues :
          quickpick' = [value |-> v, placeholder |-> ChooseAnItem,
                        items |-> getItems(result, collapsed, v # "")]
    /\ UNCHANGED <<viewVars, homeVars, thisSource, runs, storage, state, result,
                   collapsed, connectedIntegrations, hasConnectedIntegrations,
                   newlyConnected, lastConnect, integrations, items,
                   hasDisconnectedIntegrations, debouncer, tasks, answered, calls,
                   frozen>>

\* What a search may bring for the picker: getItems(result, true) for the loaded
\* results, and the list of a result in which pull request 1 is pinned, which
\* groupAndSortLaunchpadItems lists under 'pinned' and under its own group.
SearchedLists ==
    {getItems(r, <<>>, TRUE) : r \in LoadedResults}
       \cup {<<ItemEntry(PR("1"), "pinned", TRUE), ItemEntry(PR("1"), "mergeable", TRUE),
                ItemEntry(PR("3"), "draft", TRUE)>>}

\* updateItems, line 557, for a search: the entries found are merged into the
\* entries of the picker (combineQuickpickItemsWithSearchResults, lines 523-537).
Combine ==
    /\ pc = "listed"
    /\ pc' = "combined"
    /\ \E found \in SearchedLists :
          /\ items' = found
          /\ quickpick' = [quickpick EXCEPT
                              !.items = combineQuickpickItemsWithSearchResults(@, found)]
    /\ UNCHANGED <<viewVars, homeVars, thisSource, runs, storage, state, result,
                   collapsed, connectedIntegrations, hasConnectedIntegrations,
                   newlyConnected, lastConnect, integrations,
                   hasDisconnectedIntegrations, debouncer, tasks, answered, calls,
                   frozen>>

\* A state with an item, a stored list of collapsed groups or none, and a result,
\* before any part of steps() has run.
PartsInit ==
    /\ thisSource = Undefined
    /\ pc = "new"
    /\ runs = 0
    /\ storage \in {<<>>} \cup {[k \in {KeyCollapsed} |-> stored] : stored \in StoredCollapsed}
    /\ \E a \in StateActions, g \in InitialGroups :
          state = [item |-> [id |-> "1", group |-> "mergeable"], action |-> a,
                   counter |-> 1, confirm |-> "false", initialGroup |-> g]
    /\ result \in LoadedResults
    /\ integrations = {"github"}
    /\ collapsed = <<>>
    /\ connectedIntegrations = <<>>
    /\ hasConnectedIntegrations = FALSE
    /\ newlyConnected = FALSE
    /\ lastConnect = "none"
    /\ quickpick = StepShown(<<>>)
    /\ items = <<>>
    /\ hasDisconnectedIntegrations = FALSE
    /\ debouncer = IdleDebouncer
    /\ tasks = <<>>
    /\ answered = TRUE
    /\ calls = <<>>
    /\ frozen = 0

(* ----------------------------- the model ------------------------------- *)

\* The wizard before a command is constructed.
WizardInit ==
    /\ thisSource = Undefined
    /\ pc = "new"
    /\ runs = 0
    /\ \E fresh \in BOOLEAN :
          /\ storage = IF fresh THEN <<>>
                       ELSE [k \in {KeyCollapsed, KeyHasInteracted} |->
                                IF k = KeyCollapsed THEN {"mergeable"} ELSE "t1"]
          /\ integrations = IF fresh THEN {} ELSE {"github"}
    /\ state = [item |-> NoItem, action |-> NoAction, counter |-> 0,
                confirm |-> Undefined, initialGroup |-> Undefined]
    /\ result = [error |-> NoError, items |-> <<>>]
    /\ collapsed = <<>>
    /\ connectedIntegrations = <<>>
    /\ hasConnectedIntegrations = FALSE
    /\ newlyConnected = FALSE
    /\ lastConnect = "none"
    /\ quickpick = StepShown(<<>>)
    /\ items = <<>>
    /\ hasDisconnectedIntegrations = FALSE
    /\ debouncer = IdleDebouncer
    /\ tasks = <<>>
    /\ answered = TRUE
    /\ calls = <<>>
    /\ frozen = 0

\* No ScmGroupedView is constructed.
ViewParked ==
    /\ vpc = "new"
    /\ included = <<>>
    /\ lastSelectedScmGroupedView = Undefined
    /\ view = NoView
    /\ created = <<>>
    /\ registered = FALSE
    /\ contextKey = Undefined
    /\ executed = Undefined
    /\ ops = <<>>
    /\ lastCall = "none"
    /\ requested = Undefined
    /\ returned = NoView

\* No LaunchpadCommand is constructed.
WizardParked ==
    /\ WizardInit
    /\ storage = <<>>
    /\ integrations = {}

WizardNext ==
    \/ Construct \/ StartSteps \/ ConnectStepAnswer \/ ConnectReturn
    \/ AccessStepAnswer \/ Load273Return \/ Load306Return
    \/ ChangeValue \/ ClickRefresh \/ ClickConnect
    \/ ClickItemButton \/ SelectHeading \/ SelectItem \/ StepBack \/ Close
    \/ ConnectMoreAnswer \/ ConnectMoreReturn \/ ConfirmSelect
    \/ TimerFire \/ TaskReturn \/ TaskThrow

Init == WizardInit /\ ViewParked /\ HomeParked

Next == WizardNext

\* The Launchpad wizard.
Spec == Init /\ [][Next]_vars

InitView == ViewInit /\ WizardParked /\ HomeParked

\* The view-group switcher.
SpecView == InitView /\ [][ViewNext]_vars


InitHome == HomeInit /\ ViewParked /\ WizardParked

\* The home page's element.
SpecHome == InitHome /\ [][HomeNext]_vars

InitParts == PartsInit /\ ViewParked /\ HomeParked

PartsNext == Dispatch \/ BuildCollapsed \/ BuildItems \/ Combine

\* The parts of steps() and of the pick step, each applied to every input.
SpecParts == InitParts /\ [][PartsNext]_vars

RunsNext ==
    \/ ConstructAgain \/ StartSteps \/ ConnectStepAnswer \/ ConnectReturn
    \/ AccessStepAnswer \/ Load273Return \/ Close

\* The commands constructed one after the other, each run up to its pick step.
SpecRuns == Init /\ [][RunsNext]_vars

\* The view-group switcher under any sequence of setView and dispose calls.
SpecCalls == InitView /\ [][CallsNext]_vars
(* ----------------------------------------------------------------------- *)
(* Properties of ScmGroupedView                                            *)
(* ----------------------------------------------------------------------- *)

\* The position of the first event of `kind` in a trace of events (0: none).
PosOf(trace, kind) ==
    IF \E i \in 1..Len(trace) : trace[i][1] = kind
    THEN CHOOSE i \in 1..Len(trace) :
            /\ trace[i][1] = kind
            /\ \A j \in 1..(i - 1) : trace[j][1] # kind
    ELSE 0

\* C1: after the constructor's call or a command's call of setView with a type
\* that is not in `included` (a non-empty list), the current view, which is the
\* view returned, has the type included[0], and included[0] is recorded as the
\* last selected view.
C1_FallbackToFirstIncluded ==
    (/\ lastCall \in {"constructor", "setView"}
     /\ Len(included) > 0
     /\ ~Includes(included, requested))
    => /\ returned # NoView
       /\ view = returned
       /\ ViewType(returned) = included[1]
       /\ lastSelectedScmGroupedView = included[1]

\* C1's case: a command asked for a type that is not included while the view of
\* another included type was current, and the first included type's view replaced it.
C1_Witness ==
    /\ lastCall = "setView"
    /\ Len(included) = 2
    /\ ~Includes(included, requested)
    /\ Len(created) >= 2
    /\ ViewTypeOfClass(created[Len(created) - 1].class) = included[2]
    /\ ViewType(view) = included[1]
    /\ view = Len(created)

\* C2: a setView call whose effective type differs from the current view's type
\* disposes the previous view (if any) before it constructs the new one, the new
\* view is of the class matching the effective type, and it becomes current.
C2_DisposeThenConstruct ==
    [][(/\ lastCall' \in {"constructor", "setView"}
        /\ EffectiveType(requested') # Undefined
        /\ ViewType(view) # EffectiveType(requested'))
       => /\ view' = Len(created) + 1
          /\ Len(created') = Len(created) + 1
          /\ ViewTypeOfClass(created'[view'].class) = EffectiveType(requested')
          /\ ~created'[view'].disposed
          /\ PosOf(ops', "new") > 0
          /\ view # NoView =>
                /\ created'[view].disposed
                /\ ops'[PosOf(ops', "dispose")] = <<"dispose", view>>
                /\ PosOf(ops', "dispose") < PosOf(ops', "new")
      ]_viewVars

\* C2's case: a view was current, a call for another type disposed it and then
\* constructed the replacement.
C2_Witness ==
    /\ lastCall = "setView"
    /\ Len(created) >= 2
    /\ view = Len(created)
    /\ created[view - 1].disposed
    /\ ops = <<<<"setContext", ViewType(view)>>, <<"dispose", view - 1>>,
               <<"new", created[view].class>>>>

\* C3: after the constructor and after every setView call, with `included`
\* non-empty, lastSelectedScmGroupedView is the type of the current view and is
\* a member of `included`.
C3_LastSelectedIsCurrentAndIncluded ==
    (vpc # "new" /\ Len(included) > 0)
    => /\ lastSelectedScmGroupedView = ViewType(view)
       /\ Includes(included, lastSelectedScmGroupedView)

\* C3's case: several switches happened and the recorded type is the second
\* included type, that of the current view.
C3_Witness ==
    /\ lastCall = "setView"
    /\ Len(included) = 2
    /\ included[1] # included[2]
    /\ Len(created) = MaxViews
    /\ lastSelectedScmGroupedView = included[2]
    /\ ViewType(view) = included[2]


\* C22: setView called with the type of the current view returns that very
\* view, disposes of nothing, constructs no view and does not set the context
\* key 'gitlens:views:scm:grouped:view'.
C22_SetViewOfCurrentTypeIdle ==
    [][(/\ lastCall' = "setView"
        /\ view # NoView
        /\ requested' = ViewType(view))
       => /\ returned' = view
          /\ view' = view
          /\ created' = created
          /\ ops' = <<>>
          /\ contextKey' = contextKey
      ]_viewVars

\* C22's case: the last call asked for the type of the current view and got the
\* view back without any operation.
C22_Witness ==
    /\ lastCall = "setView"
    /\ view # NoView
    /\ requested = ViewType(view)
    /\ returned = view
    /\ ops = <<>>
    /\ Len(created) = 1
    /\ contextKey = requested

\* The views created that have not been disposed of.
Undisposed == {i \in 1..Len(created) : ~created[i].disposed}

\* C23 as stated: in any sequence of setView and dispose calls at most one
\* created view is not disposed, it is the current one, the view a setView call
\* returns has not been disposed, and after dispose() no created view is left
\* undisposed.
C23_OneLiveViewNeverStale ==
    /\ Cardinality(Undisposed) <= 1
    /\ Undisposed \subseteq {view}
    /\ (lastCall \in {"constructor", "setView"} /\ returned # NoView)
          => ~created[returned].disposed
    /\ lastCall = "dispose" => Undisposed = {}

\* C24: after the constructor and after every setView call the value last set
\* for the context key 'gitlens:views:scm:grouped:view' is the type of the
\* current view (none was set while there is no view).
C24_ContextKeyIsCurrentType ==
    vpc # "new" => contextKey = ViewType(view)

\* C24's case: a call asked for a type that is not included while another view
\* was current, and the context key was set to the type of the view built.
C24_Witness ==
    /\ lastCall = "setView"
    /\ ~Includes(included, requested)
    /\ Len(created) >= 2
    /\ view = Len(created)
    /\ Len(ops) > 0
    /\ ops[1] = <<"setContext", included[1]>>
    /\ contextKey = included[1]
    /\ ViewType(view) = contextKey
(* ======================================================================= *)
(*                 Properties of the Launchpad wizard                      *)
(* ======================================================================= *)

\* In this step refresh task r's updateContextItems returns.
Returns(r) ==
    /\ r \in 1..Len(tasks) /\ r \in 1..Len(tasks')
    /\ tasks[r].phase = "run"
    /\ tasks'[r].phase = "done"

\* C4: a refresh whose cancellation token is cancelled when its items come back
\* assigns neither quickpick.items nor quickpick.placeholder: the step in which a
\* cancelled refresh returns leaves the quick pick as it is, whatever the order
\* the refreshes return in.
C4_CancelledRefreshLeavesPicker ==
    [][\A r \in 1..Len(tasks) :
          (Returns(r) /\ tasks[r].cancelled) => quickpick' = quickpick]_vars

\* C4: a superseded refresh and the one that superseded it are both in flight
\* while the pick step shows pull requests.
C4_SupersededInFlight ==
    /\ pc = "pick"
    /\ Len(tasks) = 2
    /\ tasks[1].phase = "run" /\ tasks[1].cancelled
    /\ tasks[2].phase = "run" /\ ~tasks[2].cancelled
    /\ \E k \in 1..Len(quickpick.items) : HasItemId(quickpick.items[k])

\* C5 as stated: a superseded refresh never overwrites the result of a later
\* one: when a cancelled refresh returns after a refresh issued later has
\* returned, context.result and context.connectedIntegrations stay what the later
\* one has assigned.
C5_SupersededKeepsLaterResult ==
    [][\A r, q \in 1..Len(tasks) :
          (r < q /\ Returns(r) /\ tasks[r].cancelled /\ tasks[q].phase = "done")
             => (result' = result /\ connectedIntegrations' = connectedIntegrations)]_vars

\* In this step the pick step is built and shown.
ShowsPickStep == pc # "pick" /\ pc' = "pick"

\* In this step a refresh of the step shown returns that is not cancelled, and
\* assigns the picker.
RefreshAssigns(r) == Returns(r) /\ ~tasks[r].cancelled /\ ~tasks[r].orphan

\* The placeholder and the only item of a failed load.
ShowsUnableToLoad(qp, res) ==
    /\ qp.placeholder = UnableToLoad(res.error)
    /\ qp.items = <<OkDirective>>

\* C6 as stated: whenever the picker's items are computed while
\* context.result.error is set (the pick step is shown, or a refresh assigns the
\* picker), the placeholder is "Unable to load items (<error>)" and the only item
\* is the OK directive, so that no pull request is selectable.
C6_ErrorShowsOnlyOk ==
    [][((ShowsPickStep \/ \E r \in 1..Len(tasks) : RefreshAssigns(r))
            /\ result'.error # NoError)
          => ShowsUnableToLoad(quickpick', result')]_vars

\* C6, amended: when the pick step is shown, or a refresh made with an empty
\* search value assigns the picker, while context.result.error is set, the
\* placeholder is "Unable to load items (<error>)" and the only item is the OK
\* directive; a refresh made with a search value sets the same placeholder and
\* leaves the items of the picker as they are.
C6_ErrorShowsOnlyOkUnlessSearching ==
    [][/\ (ShowsPickStep /\ result'.error # NoError)
            => ShowsUnableToLoad(quickpick', result')
       /\ \A r \in 1..Len(tasks) :
            (RefreshAssigns(r) /\ result'.error # NoError)
               => IF tasks[r].isSearching
                  THEN /\ quickpick'.placeholder = UnableToLoad(result'.error)
                       /\ quickpick'.items = quickpick.items
                  ELSE ShowsUnableToLoad(quickpick', result')]_vars

\* C6: the pick step shows the placeholder of a failed load and a pull request
\* that can be selected, after a search has failed.
C6_ErrorWithPullRequestShown ==
    /\ pc = "pick"
    /\ result.error # NoError
    /\ quickpick.placeholder = UnableToLoad(result.error)
    /\ quickpick.value # ""
    /\ \E k \in 1..Len(quickpick.items) : HasItemId(quickpick.items[k])

\* The calls of a step hold the request of line 273.
RequestsAt273(cs) == \E k \in 1..Len(cs) : cs[k] = GetCategorizedItems("273")

\* C7 as stated: after a load has failed the wizard requests the items again
\* only for a user event: when steps() requests the items at line 273 while
\* context.result.error is set, the user has answered a step since the failed
\* items came back.
C7_NoRequestOnItsOwnAfterError ==
    [][(RequestsAt273(calls') /\ result'.error # NoError) => answered']_vars

\* C8: every key of context.collapsed is a group of launchpadGroups.
C8_CollapsedKeysAreGroups == DOMAIN collapsed \subseteq LaunchpadGroup

\* C8: a run started with an initial group, whose heading has been toggled since.
C8_InitialGroupToggled ==
    /\ pc = "pick"
    /\ state.initialGroup = "mergeable"
    /\ IsCollapsed(collapsed, "mergeable")
    /\ \E g \in LaunchpadGroup \ {"mergeable"} : IsCollapsed(collapsed, g)

\* C9: the wizard writes no key of the storage but 'launchpad:groups:collapsed'
\* and 'launchpad:indicator:hasInteracted': every key a step adds to the storage
\* or changes the value of is one of the two.
C9_OnlyTwoKeysWritten ==
    [][\A k \in DOMAIN storage' :
          (k \notin DOMAIN storage \/ storage'[k] # storage[k])
             => k \in {KeyCollapsed, KeyHasInteracted}]_vars

\* C9: both keys have been written: the constructor has stored the time of the
\* interaction, and a toggled heading the collapsed groups.
C9_BothKeysWritten ==
    /\ KeyHasInteracted \in DOMAIN storage /\ storage[KeyHasInteracted] = "t2"
    /\ KeyCollapsed \in DOMAIN storage /\ storage[KeyCollapsed] # {"mergeable"}

\* C10: the pick step is shown only if the context held a connected integration
\* when the iteration began or the connect step of the same iteration has
\* connected one; after a failed or declined connect step the iteration goes on
\* neither to ensureAccessStep nor to the items nor to the pick step.
C10_PickStepNeedsConnection ==
    /\ pc = "pick" => (hasConnectedIntegrations \/ lastConnect = "connected")
    /\ pc \in {"accessStep", "load273", "pick"} => lastConnect \notin {"failed", "declined"}

\* C10: the pick step is shown in the iteration whose connect step has connected
\* the first integration.
C10_PickStepAfterConnect ==
    /\ pc = "pick"
    /\ ~hasConnectedIntegrations
    /\ lastConnect = "connected"

\* The methods of container.launchpad that act on a pull request.
CollaboratorActions ==
    {"merge", "open", "switchTo", "openChanges", "openInGraph", "openCodeSuggestion"}

\* The calls of a step that act on a pull request.
Dispatched(cs) == {k \in 1..Len(cs) : cs[k][1] \in CollaboratorActions}

Elements(s) == {s[i] : i \in 1..Len(s)}

\* C13: what render() has put into <main> holds the four preview panels
\* (integration banner, active work, launchpad, overview), all of them and each
\* once, exactly when state.previewEnabled is true; in every other case (false,
\* absent, no state) it holds the feature navigation and none of the panels; the
\* panels and the feature navigation are never rendered together.
C13_PanelsIffPreviewEnabled ==
    hpc = "connected" =>
       LET preview == homeState.present /\ homeState.previewEnabled = "true"
           panels == SelectSeq(rendered, LAMBDA e : e \in Elements(PreviewPanels))
           nav == SelectSeq(rendered, LAMBDA e : e = "gl-feature-nav")
       IN /\ preview => (panels = PreviewPanels /\ nav = <<>>)
          /\ ~preview => (panels = <<>> /\ nav = <<"gl-feature-nav">>)
          /\ ~(panels # <<>> /\ nav # <<>>)

\* C13: the element has rendered the feature navigation for a state whose
\* previewEnabled is absent, and has shown the account content for a message.
C13_NavForUndefinedFlag ==
    /\ hpc = "connected"
    /\ homeState.present /\ homeState.previewEnabled = Undefined
    /\ "gl-feature-nav" \in Elements(rendered)
    /\ accountShown > 0

\* C15: selecting a group heading flips the collapsed flag of that group and of
\* no other; in a run without an initial group the value stored under
\* 'launchpad:groups:collapsed' is afterwards exactly the set of the groups whose
\* flag is true, and in a run with an initial group the storage is left as it was.
C15_ToggleFlipsAndStores ==
    [][(pc = "pick" /\ collapsed' # collapsed) =>
          /\ \E k \in 1..Len(quickpick.items) :
                LET ui == quickpick.items[k].group IN
                /\ quickpick.items[k].kind = "heading"
                /\ DOMAIN collapsed' = DOMAIN collapsed \cup {ui}
                /\ collapsed'[ui] = ~IsCollapsed(collapsed, ui)
                /\ \A g \in DOMAIN collapsed \ {ui} : collapsed'[g] = collapsed[g]
          /\ IF state.initialGroup = Undefined
             THEN /\ KeyCollapsed \in DOMAIN storage'
                  /\ storage'[KeyCollapsed] = {g \in DOMAIN collapsed' : collapsed'[g]}
                  /\ \A key \in DOMAIN storage' \ {KeyCollapsed} :
                        key \in DOMAIN storage /\ storage'[key] = storage[key]
             ELSE storage' = storage]_vars

\* C15: a toggle of a run without an initial group has stored the set of the
\* collapsed groups, and it is not the list the storage held before the run.
C15_ToggleStored ==
    /\ pc = "pick"
    /\ state.initialGroup = Undefined
    /\ KeyCollapsed \in DOMAIN storage
    /\ storage[KeyCollapsed] # {"mergeable"}
    /\ storage[KeyCollapsed] = {g \in DOMAIN collapsed : collapsed[g]}

\* C16: 'launchpad:indicator:hasInteracted' is written only by the construction
\* of a command with source 'launchpad-indicator' while no value is stored; a
\* stored value is kept by every later step, the construction of a command from
\* any source included.
C16_HasInteractedWrittenOnce ==
    [][/\ KeyHasInteracted \in DOMAIN storage =>
             /\ KeyHasInteracted \in DOMAIN storage'
             /\ storage'[KeyHasInteracted] = storage[KeyHasInteracted]
       /\ (KeyHasInteracted \notin DOMAIN storage /\ KeyHasInteracted \in DOMAIN storage') =>
             /\ runs' = runs + 1
             /\ pc' = "constructed"
             /\ thisSource' = "launchpad-indicator"]_vars

\* C16: the first command of the indicator has stored its time, and a command
\* constructed later from the indicator has left it.
C16_LaterIndicatorKeepsFirst ==
    /\ runs = MaxConstructions
    /\ pc = "constructed"
    /\ thisSource = "launchpad-indicator"
    /\ KeyHasInteracted \in DOMAIN storage
    /\ storage[KeyHasInteracted] = Clock[1]

\* The entries of a picker that are pull requests with the number a value names.
SameNumber(shown, value) ==
    {k \in 1..Len(shown) : shown[k].kind = "item" /\ shown[k].id = PrNumberOf(value)}

\* C17: onDidChangeValue hands a refresh to the debouncer only if the value is
\* not empty and no pull request in the picker, as the handler has set it at
\* lines 595-596, has the number the value names; for an empty value or for a
\* value naming a pull request of the picker no refresh waits afterwards, the
\* running one is cancelled, no request is sent, and the named pull request is
\* marked alwaysShow.
C17_FetchOnlyWithoutLocalMatch ==
    [][(pc = "pick" /\ pc' = "pick" /\ quickpick'.value # quickpick.value) =>
          LET value == quickpick'.value
              matching == SameNumber(quickpick'.items, value)
          IN /\ calls' = <<>>
             /\ debouncer'.timer => (value # "" /\ matching = {})
             /\ (value = "" \/ matching # {}) =>
                   /\ ~debouncer'.timer
                   /\ \A r \in 1..Len(tasks') :
                         tasks'[r].phase = "run" => tasks'[r].cancelled
                   /\ \A k \in matching : quickpick'.items[k].alwaysShow]_vars

\* C17 as stated, for the items the picker shows when the value is typed: a
\* refresh is handed to the debouncer only if the value is not empty and none of
\* them has the number the value names; otherwise no refresh waits afterwards
\* and no request is sent.
C17_FetchOnlyWithoutShownMatch ==
    [][(pc = "pick" /\ pc' = "pick" /\ quickpick'.value # quickpick.value) =>
          LET value == quickpick'.value
              matching == SameNumber(quickpick.items, value)
          IN /\ calls' = <<>>
             /\ debouncer'.timer => (value # "" /\ matching = {})
             /\ (value = "" \/ matching # {}) => ~debouncer'.timer]_vars

\* C17: the number of a pull request of the picker was typed while a refresh
\* was running: the refresh is cancelled, none waits, the item is marked.
C17_LocalMatchCancelsRefresh ==
    /\ pc = "pick"
    /\ quickpick.value = "1"
    /\ ~debouncer.timer
    /\ \E r \in 1..Len(tasks) : tasks[r].phase = "run" /\ tasks[r].cancelled
    /\ \E k \in SameNumber(quickpick.items, "1") : quickpick.items[k].alwaysShow

\* C18: a connect step freezes the quick pick only when its answer starts a
\* connection, and the freeze is released exactly once when the connection
\* returns, connected or not: no freeze is left when a further step is shown or
\* the items are requested, and none is released twice.
C18_FreezeReleasedOnce ==
    /\ [](/\ frozen \in {0, 1}
          /\ (frozen = 1) = (pc \in {"connecting", "connectingMore"}))
    /\ [][/\ frozen' > frozen =>
                /\ frozen' = frozen + 1
                /\ pc \in {"connect", "connectMore"}
                /\ pc' \in {"connecting", "connectingMore"}
          /\ (pc \in {"connecting", "connectingMore"} /\ pc' # pc) => frozen' = frozen - 1]_vars

\* C18: the connection started from the pick step has failed, the freeze is
\* released, and the items are requested for the next pick step.
C18_ReleasedAfterFailedConnect ==
    /\ pc = "load306"
    /\ lastConnect = "failed"
    /\ frozen = 0

\* C19 as stated: once the pick step has ended, with an item chosen or the
\* picker dismissed, a refresh that step has started changes nothing when it
\* returns while the confirm step is shown or after the wizard was closed:
\* context.result, context.connectedIntegrations and the quick pick shown stay as
\* they are.
C19_EndedStepsRefreshChangesNothing ==
    [][\A r \in 1..Len(tasks) :
          (Returns(r) /\ tasks[r].orphan /\ pc \in {"confirm", "closed"}) =>
             /\ result' = result
             /\ connectedIntegrations' = connectedIntegrations
             /\ quickpick' = quickpick]_vars

(* ======================================================================= *)
(*                 Properties of the parts of the wizard                   *)
(* ======================================================================= *)

\* The method and the option each LaunchpadAction is to invoke.
MethodOf ==
    [a \in LaunchpadActions |->
        CASE a = "merge" -> <<"merge", "">>
          [] a \in {"open", "soft-open"} -> <<"open", "">>
          [] a \in {"switch", "show-overview"} -> <<"switchTo", "">>
          [] a = "open-worktree" -> <<"switchTo", "skipWorktreeConfirmations">>
          [] a \in {"switch-and-code-suggest", "code-suggest"} ->
                 <<"switchTo", "startCodeSuggestion">>
          [] a = "open-changes" -> <<"openChanges", "">>
          [] a = "open-in-graph" -> <<"openInGraph", "">>]

\* C12: the dispatch of an action calls exactly one method of the collaborator
\* on state.item: merge for merge, open for open and soft-open, switchTo for
\* switch and show-overview, switchTo with skipWorktreeConfirmations for
\* open-worktree, switchTo with startCodeSuggestion for switch-and-code-suggest
\* and code-suggest, openChanges for open-changes, openInGraph for open-in-graph,
\* openCodeSuggestion with the target for the target action open-suggestion; an
\* undefined action calls none.
C12_DispatchCallsOneMethod ==
    pc = "dispatched" =>
       LET a == state.action IN
       IF a = NoAction THEN calls = <<>>
       ELSE IF a.target # ""
       THEN a.action = "open-suggestion"
               => calls = <<<<"openCodeSuggestion", state.item.id, a.target>>>>
       ELSE calls = <<<<MethodOf[a.action][1], state.item.id, MethodOf[a.action][2]>>>>

\* C12: open-worktree was dispatched as switchTo with skipWorktreeConfirmations.
C12_OpenWorktreeDispatched ==
    /\ pc = "dispatched"
    /\ state.action = StringAction("open-worktree")
    /\ calls = <<<<"switchTo", "1", "skipWorktreeConfirmations">>>>

\* C14: with state.initialGroup set, the collapsed map the run starts with holds
\* every launchpad group, collapsed, except initialGroup, which is expanded,
\* whatever is stored under 'launchpad:groups:collapsed'.
C14_InitialGroupAloneExpanded ==
    (pc = "collapsed" /\ state.initialGroup # Undefined) =>
       /\ LaunchpadGroup \subseteq DOMAIN collapsed
       /\ \A g \in LaunchpadGroup : collapsed[g] = (g # state.initialGroup)

\* C14: the stored list names the initial group, and the run starts with it
\* expanded.
C14_StoredInitialGroupExpanded ==
    /\ pc = "collapsed"
    /\ state.initialGroup = "mergeable"
    /\ KeyCollapsed \in DOMAIN storage
    /\ "mergeable" \in storage[KeyCollapsed]
    /\ ~collapsed["mergeable"]
    /\ collapsed["draft"]

\* The entries of the list that belong to a group, and the headings among them.
EntriesOf(its, ui) == SelectSeq(its, LAMBDA e : e.group = ui)
HeadingsOf(its, ui) == SelectSeq(its, LAMBDA e : e.group = ui /\ e.kind = "heading")
PullRequestsOf(its, ui) == SelectSeq(its, LAMBDA e : e.group = ui /\ e.kind = "item")
IdsOf(its) == [k \in 1..Len(its) |-> its[k].id]

\* C20: in the list getItems builds, a group without items has no entry; when
\* not searching every group with items has its heading, followed by its items
\* only if the group is not collapsed; when searching there is no heading and
\* every group with items has all its items, collapsed or not.
C20_GetItemsByGroup ==
    pc = "listed" =>
       LET its == quickpick.items
           isSearching == quickpick.value # ""
       IN /\ \A k \in 1..Len(its) : its[k].group \in LaunchpadGroup
          /\ \A ui \in LaunchpadGroup :
                LET groupItems == GroupItems(result.items, ui) IN
                IF groupItems = <<>> THEN EntriesOf(its, ui) = <<>>
                ELSE /\ Len(HeadingsOf(its, ui)) = (IF isSearching THEN 0 ELSE 1)
                     /\ ~isSearching => EntriesOf(its, ui)[1].kind = "heading"
                     /\ IdsOf(PullRequestsOf(its, ui)) =
                           IF ~isSearching /\ IsCollapsed(collapsed, ui)
                           THEN <<>> ELSE IdsOf(groupItems)

\* C20: a search lists the items of a collapsed group, without a heading.
C20_SearchListsCollapsedGroup ==
    /\ pc = "listed"
    /\ quickpick.value # ""
    /\ IsCollapsed(collapsed, "draft")
    /\ ~IsCollapsed(collapsed, "mergeable")
    /\ IdsOf(quickpick.items) = <<"1", "3", "4">>

\* The ids of the pull requests among the entries of a list.
PullRequestIds(its) == {its[k].id : k \in {k \in 1..Len(its) : its[k].kind = "item"}}

\* No pull request is listed twice.
ListedOnce(its) ==
    \A j, k \in 1..Len(its) :
       (its[j].kind = "item" /\ its[k].kind = "item" /\ its[j].id = its[k].id) => j = k

\* C21 as stated: combineQuickpickItemsWithSearchResults keeps every entry
\* already shown in its position, appends in their order the search results
\* whose pull request is not among the entries shown and no other, and the
\* outcome lists no pull request twice when the entries shown listed none twice.
C21_CombineKeepsAndAppendsOnce ==
    [][(pc = "listed" /\ pc' = "combined") =>
          LET arr == quickpick.items
              found == items'
              merged == quickpick'.items
          IN /\ Len(merged) >= Len(arr)
             /\ SubSeq(merged, 1, Len(arr)) = arr
             /\ SubSeq(merged, Len(arr) + 1, Len(merged)) =
                   SelectSeq(found, LAMBDA e : e.kind = "item" /\ e.id \notin PullRequestIds(arr))
             /\ ListedOnce(arr) => ListedOnce(merged)]_vars

\* C21: combineQuickpickItemsWithSearchResults keeps every entry already shown
\* in its position and appends, in their order, the search results whose pull
\* request is not among the entries shown, and no other; the outcome lists no
\* pull request twice when neither the entries shown nor the search results
\* listed one twice.
C21_CombineKeepsAndAppends ==
    [][(pc = "listed" /\ pc' = "combined") =>
          LET arr == quickpick.items
              found == items'
              merged == quickpick'.items
          IN /\ Len(merged) >= Len(arr)
             /\ SubSeq(merged, 1, Len(arr)) = arr
             /\ SubSeq(merged, Len(arr) + 1, Len(merged)) =
                   SelectSeq(found, LAMBDA e : e.kind = "item" /\ e.id \notin PullRequestIds(arr))
             /\ (ListedOnce(arr) /\ ListedOnce(found)) => ListedOnce(merged)]_vars

\* C21: the picker listed pull request 1 under its heading, the search found
\* it again together with pull request 3, and only pull request 3 was appended.
C21_OnlyNewResultAppended ==
    /\ pc = "combined"
    /\ Len(quickpick.items) >= 2
    /\ quickpick.items[1].kind = "heading"
    /\ ListedOnce(items)
    /\ PullRequestIds(items) = {"1", "3"}
    /\ ListedOnce(quickpick.items)
    /\ quickpick.items[Len(quickpick.items)].id = "3"
    /\ quickpick.items[Len(quickpick.items)].alwaysShow
    /\ ~quickpick.items[Len(quickpick.items) - 1].alwaysShow

=============================================================================
